---- MODULE Spec2Model ----
(***************************************************************************)
(* NOAA Weather integration: the data source client (noaaweather.py), the  *)
(* update coordinator (__init__.py) and the entities that subscribe to it  *)
(* (sensor.py, weather.py).                                                *)
(*                                                                         *)
(* Python values are encoded as follows.  A dict is a function with a      *)
(* string domain, a list is a sequence.  Scalar leaves are tagged records  *)
(* so that a scalar and a mapping can be compared: PyInt(62) is the int   *)
(* 62, PyFloat(255) is the float 25.5 (one decimal digit, in tenths),      *)
(* PyStr(s) is a str and None is None.  Time is counted in units of 10     *)
(* seconds and kept as countdowns: timer_in is the time left until the     *)
(* scheduled refresh, flight the time since the running attempt started.   *)
(***************************************************************************)
EXTENDS Integers, Sequences, FiniteSets, TLC

\* ------------------------------------------------------------------ bounds
MaxUnsubscribes == 1

\* --------------------------------------------------------------- constants
\* n minutes in the unit of time, 10 s
Minutes(n) == n * 6
\* mutant: the 80 minutes that the comment above update_interval describes
UPDATE_INTERVAL_COMMENT == Minutes(80)
\* timedelta(minutes=10), in units of 10 s
UPDATE_INTERVAL == 60
\* timeout(10), in units of 10 s
TIMEOUT == 1
\* const.py (not among the sources): reserved key and nested key names
ATTR_FORECAST == "forecast"
ATTR_VALUE == "Value"
ATTR_SPEED == "Speed"
ATTR_DIRECTION == "Direction"
ATTR_CATEGORY == "Category"
MAX_FORECAST_DAYS == 4

\* ------------------------------------------------------------ value coding
None == [none |-> TRUE]
PyInt(n) == [int |-> n]
PyFloat(t) == [tenths |-> t]
PyStr(s) == [str |-> s]
Measure(unit, type, v) == [Unit |-> PyStr(unit), UnitType |-> PyInt(type), Value |-> v]
Direction(deg, en) == [Degrees |-> PyInt(deg), English |-> PyStr(en), Localized |-> PyStr(en)]
WindOf(deg, en, speed) ==
    [Direction |-> Direction(deg, en), Speed |-> Measure("km/h", 7, PyFloat(speed))]

\* a raised exception / a returned value, as the result of a call
Exc(name) == [exc |-> name]
Ok(v) == [ok |-> v]
IsExc(r) == "exc" \in DOMAIN r

\* ------------------------------------------------------- the client's data
\* NOAAWeather.async_get_current_conditions
FixtureCurrent ==
    [Temperature |-> Measure("C", 17, PyFloat(255)),
     DewPoint |-> Measure("C", 17, PyFloat(183)),
     RelativeHumidity |-> PyInt(62),
     WindChillTemperature |-> Measure("C", 17, None),
     ApparentTemperature |-> Measure("C", 17, PyFloat(278)),
     Wind |-> WindOf(140, "SE", 154),
     Visibility |-> Measure("km", 6, PyFloat(161)),
     CloudCover |-> PyInt(30),
     Precipitation |-> Measure("mm/h", 3, PyInt(0)),
     WeatherIcon |-> PyInt(34),
     WeatherText |-> PyStr("Mostly sunny")]

\* NOAAWeather.async_get_daily_forecast
FixtureDay0 ==
    [EpochDate |-> PyInt(1697817600),
     TemperatureMax |-> Measure("C", 17, PyFloat(289)),
     TemperatureMin |-> Measure("C", 17, PyFloat(194)),
     RealFeelTemperatureMax |-> Measure("C", 17, PyFloat(322)),
     RealFeelTemperatureMin |-> Measure("C", 17, PyFloat(189)),
     TotalLiquidDay |-> Measure("mm", 3, PyFloat(5)),
     PrecipitationProbabilityDay |-> PyInt(30),
     WindDay |-> WindOf(165, "SSE", 129),
     WindGustDay |-> WindOf(170, "S", 204),
     CloudCoverDay |-> PyInt(40),
     IconDay |-> PyInt(36)]

FixtureDay1 ==
    [EpochDate |-> PyInt(1729472302),
     TemperatureMax |-> Measure("C", 17, PyFloat(181)),
     TemperatureMin |-> Measure("C", 17, PyFloat(15)),
     RealFeelTemperatureMax |-> Measure("C", 17, PyFloat(228)),
     RealFeelTemperatureMin |-> Measure("C", 17, PyFloat(9)),
     TotalLiquidDay |-> Measure("mm", 3, PyFloat(35)),
     PrecipitationProbabilityDay |-> PyInt(30),
     WindDay |-> WindOf(42, "SSE", 339),
     WindGustDay |-> WindOf(30, "S", 494),
     CloudCoverDay |-> PyInt(90),
     IconDay |-> PyInt(36)]

FixtureForecast == << FixtureDay0, FixtureDay1 >>

\* Other readings a data source can produce: the stub returns the fixture
\* only, a client that performs the network call returns what the service
\* reports.  OtherCurrent has fewer fields and one the fixture lacks.
OtherCurrent ==
    [Temperature |-> Measure("C", 17, PyFloat(261)),
     DewPoint |-> Measure("C", 17, PyFloat(170)),
     RelativeHumidity |-> PyInt(58),
     Wind |-> WindOf(90, "E", 80),
     CloudCover |-> PyInt(75),
     Pressure |-> Measure("mb", 14, PyFloat(10132)),
     WeatherIcon |-> PyInt(7)]

LaterDay(e) == [FixtureDay1 EXCEPT !.EpochDate = PyInt(e)]
FullForecast ==
    << FixtureDay0, FixtureDay1, LaterDay(1729558702), LaterDay(1729645102),
       LaterDay(1729731502) >>

Currents == {FixtureCurrent, OtherCurrent}
Forecasts == {FixtureForecast, FullForecast, << >>}

\* ApiError and its three subclasses (noaaweather.py)
ErrorKinds == {"ApiError", "ClientConnectorError", "InvalidApiKeyError", "RequestsExceededError"}
\* class hierarchy: every error class derives from ApiError
IsInstance(kind, class) == kind = class \/ (class = "ApiError" /\ kind \in ErrorKinds)

\* ----------------------------------------------------- _async_update_data
\* mutant: the generic class is missing from the except clause
ExceptTupleNarrow == {"ClientConnectorError", "InvalidApiKeyError", "RequestsExceededError"}

\* the except clause of _async_update_data
ExceptTuple == {"ApiError", "ClientConnectorError", "InvalidApiKeyError", "RequestsExceededError"}
Caught(kind) == \E c \in ExceptTuple : IsInstance(kind, c)

NoError == [type |-> "none", cause |-> "none"]
OkOutcome == [type |-> "ok", cause |-> "none"]
\* raise UpdateFailed(error) from error
UpdateFailed(kind) == [type |-> "UpdateFailed", cause |-> kind]
\* mutant: the error is swallowed and an empty result returned
UpdateDataRaisesSwallowed(kind) ==
    IF Caught(kind) THEN Ok([k \in {ATTR_FORECAST} |-> << >>]) ELSE [type |-> kind, cause |-> "none"]

\* mutant: every error is reported as a connection error
UpdateDataRaisesAsConnection(kind) ==
    IF Caught(kind) THEN UpdateFailed("ClientConnectorError") ELSE [type |-> kind, cause |-> "none"]

\* mutant: the error is raised again as it is, without UpdateFailed
UpdateDataRaisesUnwrapped(kind) == [type |-> kind, cause |-> "none"]

\* what leaves _async_update_data when an exception of class kind is raised
\* inside its try block
UpdateDataRaises(kind) ==
    IF Caught(kind) THEN UpdateFailed(kind) ELSE [type |-> kind, cause |-> "none"]

\* mutant: the forecast is returned without the current conditions
UpdateDataReturnsForecastOnly(cur, fc) == [k \in {ATTR_FORECAST} |-> fc]

\* mutant: the forecast entries are stored latest first
UpdateDataReturnsReversed(cur, fc) ==
    [k \in DOMAIN cur \cup {ATTR_FORECAST} |->
        IF k = ATTR_FORECAST THEN [i \in 1..Len(fc) |-> fc[Len(fc) + 1 - i]] ELSE cur[k]]

\* return {**current, ATTR_FORECAST: forecast}
UpdateDataReturns(cur, fc) ==
    [k \in DOMAIN cur \cup {ATTR_FORECAST} |-> IF k = ATTR_FORECAST THEN fc ELSE cur[k]]

\* mutant: the two queries are started together
CallsAtStartTogether == {"current", "forecast"}

\* the client calls awaited when _async_update_data starts: the two queries
\* are awaited one after the other
CallsAtStart == {"current"}
CallsAfterCurrent == {"forecast"}

\* the RefreshError kind of an error: the class of the client's exception
\* that an UpdateFailed wraps, "unclassified" for anything else
KindOf(err) == IF err.type = "UpdateFailed" THEN err.cause ELSE "unclassified"

\* ------------------------------------------------------------- the sensors
NoDay == 0 - 1
\* keys of the descriptions modelled, one per shape of value_fn and of
\* availability in the client's data
SENSOR_TYPES == {"DewPoint"}
FORECAST_SENSOR_TYPES == {"AirQuality", "CloudCoverDay"}
WeatherId == << "weather", NoDay >>
CurrentSensorIds == {<< k, NoDay >> : k \in SENSOR_TYPES}
ForecastSensorIds == {<< k, d >> : k \in FORECAST_SENSOR_TYPES, d \in 0..MAX_FORECAST_DAYS}
SensorIds == CurrentSensorIds \cup ForecastSensorIds
EntityIds == SensorIds \cup {WeatherId}

\* _get_sensor_data(sensors, kind, forecast_day)
GetSensorData(sensors, kind, forecast_day) ==
    IF forecast_day # NoDay
    THEN IF ATTR_FORECAST \notin DOMAIN sensors THEN Exc("KeyError")
         ELSE IF forecast_day + 1 > Len(sensors[ATTR_FORECAST]) THEN Exc("IndexError")
         ELSE IF kind \notin DOMAIN sensors[ATTR_FORECAST][forecast_day + 1] THEN Exc("KeyError")
         ELSE Ok(sensors[ATTR_FORECAST][forecast_day + 1][kind])
    ELSE IF kind \in DOMAIN sensors THEN Ok(sensors[kind]) ELSE Ok(None)

\* subscript d[key] of a value that may be None or lack the key
Subscript(d, key) ==
    IF IsExc(d) THEN d
    ELSE IF d.ok = None \/ "int" \in DOMAIN d.ok \/ "tenths" \in DOMAIN d.ok \/ "str" \in DOMAIN d.ok
         THEN Exc("TypeError")
    ELSE IF key \notin DOMAIN d.ok THEN Exc("KeyError")
    ELSE Ok(d.ok[key])

\* entity_description.value_fn
ValueFn(kind, d) ==
    CASE kind \in {"CloudCover", "CloudCoverDay"} -> Ok(d)
      [] kind = "AirQuality" -> Subscript(Ok(d), ATTR_CATEGORY)
      [] kind = "DewPoint" -> Subscript(Ok(d), ATTR_VALUE)
      [] OTHER -> Subscript(Subscript(Ok(d), ATTR_SPEED), ATTR_VALUE)

\* ------------------------------------------------------------------- state
VARIABLES entry_state, hass_data, platforms, data, last_exception, listeners,
          entities, sensor_data, upd_pc, current, flight, client_calls,
          fetches, waiters, delivered, timer_in, unsubs,
          notified, read_result, client_out, update_listener, unload_ret

vars == << entry_state, hass_data, platforms, data, last_exception, listeners,
           entities, sensor_data, upd_pc, current, flight, client_calls,
           fetches, waiters, delivered, timer_in, unsubs,
           notified, read_result, client_out, update_listener, unload_ret >>

fetchVars == << upd_pc, current, flight, client_calls, fetches >>
entityVars == << entities, sensor_data, listeners >>

NoTimer == 0 - 1
PLATFORMS == {"sensor", "weather"}

\* hass.data[DOMAIN]: the coordinators stored under their entry ids.  ENTRY_ID
\* is the entry followed here, OTHER_ENTRY_ID an entry set up before it.
ENTRY_ID == "entry"
OTHER_ENTRY_ID == "other"
\* hass.data.setdefault(DOMAIN, {})[entry.entry_id] = coordinator
Store(registry, id, coordinator) ==
    [i \in DOMAIN registry \cup {id} |-> IF i = id THEN coordinator ELSE registry[i]]
\* mutant: the whole registry of the domain is dropped
PopAll(registry, id) == [i \in {} |-> "none"]
\* hass.data[DOMAIN].pop(entry.entry_id)
Pop(registry, id) == [i \in DOMAIN registry \ {id} |-> registry[i]]
\* the coordinator has been torn down: its entry is unloaded
TornDown == entry_state = "unloaded"

Init ==
    /\ entry_state = "not_loaded"
    /\ hass_data = [i \in {OTHER_ENTRY_ID} |-> "other_coordinator"]
    /\ update_listener = FALSE
    /\ unload_ret = [exc |-> "NoUnload"]
    /\ platforms = [p \in PLATFORMS |-> "pending"]
    /\ data = None
    /\ last_exception = NoError
    /\ listeners = {}
    /\ entities = {}
    /\ sensor_data = [e \in SensorIds |-> None]
    /\ upd_pc = "idle"
    /\ current = None
    /\ flight = 0
    /\ client_calls = {}
    /\ fetches = 0
    /\ waiters = {}
    /\ delivered = [to |-> {}, outcome |-> [type |-> "none", cause |-> "none"]]
    /\ timer_in = NoTimer
    /\ unsubs = 0
    /\ notified = [e \in EntityIds |-> 0]
    /\ read_result = [exc |-> "NoRead"]
    /\ client_out = [exc |-> "NoCall"]

\* ------------------------------------------------- coordinator: refresh()
\* delivered, notified, read_result and client_out are what a step hands
\* out: the outcome given to the callers of a refresh that ends, the callbacks
\* made, the value returned to a reader, and what the client call that ends
\* in the step returned or raised.  A step that does none of these hands out
\* nothing.
NoRead == Exc("NoRead")
NoCall == Exc("NoCall")
NoDelivery == [to |-> {}, outcome |-> NoError]
NoCallbacks == [e \in EntityIds |-> 0]
NoUnload == Exc("NoUnload")
Silent == read_result' = NoRead /\ unload_ret' = NoUnload
Quiet ==
    /\ delivered' = NoDelivery
    /\ notified' = NoCallbacks
    /\ client_out' = NoCall
    /\ unload_ret' = NoUnload

\* a refresh is in flight
InFlight == upd_pc # "idle"

\* _async_update_data up to its first await
StartUpdateData ==
    /\ upd_pc' = "current"
    /\ current' = None
    /\ flight' = 0
    /\ client_calls' = client_calls \cup CallsAtStart
    /\ fetches' = fetches + 1

\* refresh(): a caller joins the refresh in flight, or starts one
Refresh(caller) ==
    IF InFlight
    THEN /\ waiters' = waiters \cup {caller}
         /\ UNCHANGED fetchVars
    ELSE /\ waiters' = {caller}
         /\ StartUpdateData

\* mutant: the callback keeps the data it has
HandleCoordinatorUpdateStale(e, snapshot, old) == old

\* NOAAWeatherSensor._handle_coordinator_update: the value _sensor_data
\* holds after the call; an exception of _get_sensor_data leaves it as it was
HandleCoordinatorUpdate(e, snapshot, old) ==
    LET r == GetSensorData(snapshot, e[1], e[2])
    IN IF IsExc(r) THEN old ELSE r.ok

\* how many times one completed refresh calls the callback of entity e
NotifyTimes(e) == IF e \in listeners THEN 1 ELSE 0

\* the subscribers are called back after a refresh that left snapshot in data
NotifyListeners(snapshot) ==
    /\ notified' = [e \in EntityIds |-> NotifyTimes(e)]
    /\ sensor_data' = [e \in SensorIds |->
                         IF NotifyTimes(e) > 0
                         THEN HandleCoordinatorUpdate(e, snapshot, sensor_data[e])
                         ELSE sensor_data[e]]
    /\ UNCHANGED << entities, listeners >>

\* the delay of the next scheduled refresh, set when an attempt ends:
\* one interval after the start of the attempt
NextDelay == UPDATE_INTERVAL - flight

\* the schedule after an attempt has ended: a coordinator torn down has none
ScheduleNext == IF TornDown THEN NoTimer ELSE NextDelay

\* the snapshot held after a refresh has returned snapshot: the result of a
\* refresh that ends after teardown is discarded
Commit(snapshot) == IF TornDown THEN data ELSE snapshot

\* _async_update_data has ended: its frame is gone
EndUpdateData ==
    /\ upd_pc' = "idle"
    /\ current' = None
    /\ flight' = 0
    /\ client_calls' = {}
    /\ fetches' = fetches - 1
    /\ waiters' = {}

\* a refresh ends with the snapshot that _async_update_data returned
CompleteOk(snapshot) ==
    /\ Silent
    /\ EndUpdateData
    /\ data' = Commit(snapshot)
    /\ last_exception' = NoError
    /\ delivered' = [to |-> waiters, outcome |-> OkOutcome]
    /\ timer_in' = ScheduleNext
    /\ NotifyListeners(Commit(snapshot))
    /\ IF entry_state = "first_refresh"
       THEN \* async_setup_entry goes on: update listener, hass.data
            /\ entry_state' = "forwarding"
            /\ update_listener' = TRUE
            /\ hass_data' = Store(hass_data, ENTRY_ID, "coordinator")
       ELSE UNCHANGED << entry_state, hass_data, update_listener >>
    /\ UNCHANGED << platforms, unsubs >>

\* a refresh ends with the error that _async_update_data raised
CompleteFail(err) ==
    /\ Silent
    /\ EndUpdateData
    /\ data' = data
    /\ last_exception' = err
    /\ delivered' = [to |-> waiters, outcome |-> err]
    /\ NotifyListeners(data)
    /\ IF entry_state = "first_refresh"
       THEN \* the error leaves async_setup_entry: the coordinator is dropped
            /\ entry_state' = "setup_error"
            /\ timer_in' = NoTimer
       ELSE /\ UNCHANGED entry_state
            /\ timer_in' = ScheduleNext
    /\ UNCHANGED << hass_data, update_listener, platforms, unsubs >>

\* _async_update_data ends with result: the snapshot it returned, or the
\* error it raised
Complete(result) ==
    IF "ok" \in DOMAIN result THEN CompleteOk(result.ok) ELSE CompleteFail(result)

\* ----------------------------------------------------------------- actions
\* mutant: the coordinator is stored in hass.data before the first refresh
SetupEntryStoresFirst ==
    /\ Silent
    /\ Quiet
    /\ entry_state \in {"not_loaded", "setup_error"}
    /\ entry_state' = "first_refresh"
    /\ data' = None
    /\ last_exception' = NoError
    /\ timer_in' = NoTimer
    /\ Refresh("setup")
    /\ hass_data' = Store(hass_data, ENTRY_ID, "coordinator")
    /\ UNCHANGED << update_listener, platforms, unsubs, entityVars >>

\* async_setup_entry up to the await of the first refresh.  located: the
\* host's latitude and longitude are both set; when one is not, the fallback
\* assignment names DEFAULT_HOME_LATITUDE, which the module does not define,
\* and the NameError leaves async_setup_entry before a coordinator exists.
SetupEntry ==
    /\ Silent
    /\ Quiet
    /\ entry_state \in {"not_loaded", "setup_error"}
    /\ \E located \in BOOLEAN :
          IF located
          THEN /\ entry_state' = "first_refresh"
               /\ data' = None
               /\ last_exception' = NoError
               /\ timer_in' = NoTimer
               /\ Refresh("setup")
          ELSE /\ entry_state' = "setup_error"
               /\ UNCHANGED << data, last_exception, timer_in, waiters, fetchVars >>
    /\ UNCHANGED << hass_data, update_listener, platforms, unsubs, entityVars >>

\* async_get_current_conditions returns; async_get_daily_forecast is awaited
CurrentReturns ==
    /\ Silent
    /\ delivered' = NoDelivery
    /\ notified' = NoCallbacks
    /\ upd_pc = "current"
    /\ \E cur \in Currents : current' = cur /\ client_out' = Ok(cur)
    /\ upd_pc' = "forecast"
    /\ client_calls' = (client_calls \ {"current"}) \cup CallsAfterCurrent
    /\ UNCHANGED << entry_state, hass_data, update_listener, platforms, data, last_exception,
                    flight, fetches, waiters, timer_in, unsubs, entityVars >>

\* mutant: the new reading is merged into the snapshot held
ForecastReturnsMerges ==
    /\ upd_pc = "forecast"
    /\ \E fc \in Forecasts :
          /\ client_out' = Ok(fc)
          /\ Complete(Ok([k \in (IF data = None THEN {} ELSE DOMAIN data)
                                   \cup DOMAIN current \cup {ATTR_FORECAST} |->
                             IF k = ATTR_FORECAST THEN fc
                             ELSE IF k \in DOMAIN current THEN current[k] ELSE data[k]]))

\* async_get_daily_forecast returns; _async_update_data returns the snapshot
ForecastReturns ==
    /\ upd_pc = "forecast"
    /\ \E fc \in Forecasts :
          /\ client_out' = Ok(fc)
          /\ Complete(Ok(UpdateDataReturns(current, fc)))

\* mutant: the error of the client is swallowed and what has been fetched so
\* far is returned
ClientRaisesSwallowed ==
    /\ InFlight
    /\ \E kind \in ErrorKinds :
          /\ client_out' = Exc(kind)
          /\ Complete(Ok(UpdateDataReturns(IF current = None THEN << >> ELSE current, << >>)))

\* one of the two client calls raises an error of the client
ClientRaises ==
    /\ InFlight
    /\ \E kind \in ErrorKinds :
          /\ client_out' = Exc(kind)
          /\ Complete(UpdateDataRaises(kind))

\* the timeout(10) block expires while a client call is awaited
Timeout ==
    /\ InFlight
    /\ flight = TIMEOUT
    /\ client_out' = Exc("TimeoutError")
    /\ Complete(UpdateDataRaises("TimeoutError"))

\* the scheduled refresh fires
TimerTick ==
    /\ Silent
    /\ Quiet
    /\ timer_in = 0
    /\ timer_in' = NoTimer
    /\ Refresh("timer")
    /\ UNCHANGED << entry_state, hass_data, update_listener, platforms, data, last_exception, unsubs, entityVars >>

\* a refresh requested from outside the schedule
RequestRefresh ==
    /\ Silent
    /\ Quiet
    /\ entry_state = "loaded"
    /\ Refresh("request")
    /\ UNCHANGED << entry_state, hass_data, update_listener, platforms, data, last_exception, timer_in, unsubs, entityVars >>

\* The instants at which the coordinator is observed.  While a refresh is in
\* flight time passes in single units; while none is, time passes to the
\* instant of the scheduled refresh.  The platforms are set up without waiting on anything:
\* no time passes meanwhile.
AdvanceSteps ==
    IF entry_state = "forwarding" THEN {}
    ELSE IF InFlight THEN {1}
    ELSE IF timer_in = NoTimer THEN {}
    ELSE {timer_in}

\* time passes
Advance ==
    /\ Silent
    /\ Quiet
    /\ \E d \in AdvanceSteps :
          /\ d > 0
          /\ InFlight => flight + d <= TIMEOUT
          /\ timer_in # NoTimer => d <= timer_in
          /\ flight' = IF InFlight THEN flight + d ELSE flight
          /\ timer_in' = IF timer_in # NoTimer THEN timer_in - d ELSE timer_in
    /\ UNCHANGED << entry_state, hass_data, update_listener, platforms, data, last_exception,
                    upd_pc, current, client_calls, fetches, waiters,
                    unsubs, entityVars >>

\* entry_state once a platform has been set up
AfterPlatform(ps) == IF \A p \in PLATFORMS : ps[p] # "pending" THEN "loaded" ELSE "forwarding"

\* the sensors that sensor.async_setup_entry constructs from the snapshot
SensorsToCreate(snapshot) ==
    CurrentSensorIds \cup
    {e \in ForecastSensorIds :
        /\ Len(snapshot[ATTR_FORECAST]) > 0
        /\ e[1] \in DOMAIN snapshot[ATTR_FORECAST][1]}

\* sensor.async_setup_entry: every sensor reads its data when constructed;
\* an exception there leaves the platform without entities
SensorPlatformSetup ==
    /\ Silent
    /\ Quiet
    /\ entry_state = "forwarding"
    /\ platforms["sensor"] = "pending"
    /\ LET new == SensorsToCreate(data)
           failed == \E e \in new : IsExc(GetSensorData(data, e[1], e[2]))
       IN /\ platforms' = [platforms EXCEPT !["sensor"] = IF failed THEN "error" ELSE "done"]
          /\ entry_state' = AfterPlatform(platforms')
          /\ IF failed
             THEN UNCHANGED << entities, sensor_data, listeners >>
             ELSE /\ entities' = entities \cup new
                  /\ listeners' = listeners \cup new
                  /\ sensor_data' = [e \in SensorIds |->
                                       IF e \in new
                                       THEN GetSensorData(data, e[1], e[2]).ok
                                       ELSE sensor_data[e]]
    /\ UNCHANGED << hass_data, update_listener, data, last_exception, timer_in, unsubs, waiters, fetchVars >>

\* weather.async_setup_entry
WeatherPlatformSetup ==
    /\ Silent
    /\ Quiet
    /\ entry_state = "forwarding"
    /\ platforms["weather"] = "pending"
    /\ platforms' = [platforms EXCEPT !["weather"] = "done"]
    /\ entry_state' = AfterPlatform(platforms')
    /\ entities' = entities \cup {WeatherId}
    /\ listeners' = listeners \cup {WeatherId}
    /\ UNCHANGED << hass_data, update_listener, data, last_exception, timer_in, unsubs, waiters, fetchVars,
                    sensor_data >>

\* the entities whose removal is modelled: the weather entity, a sensor of the
\* current conditions and a sensor of a forecast day
Removable == {WeatherId, << "DewPoint", NoDay >>, << "CloudCoverDay", 0 >>}

\* an entity is removed: its deregistration handle is called
Unsubscribe ==
    /\ Silent
    /\ Quiet
    /\ unsubs < MaxUnsubscribes
    /\ \E e \in listeners \cap Removable : listeners' = listeners \ {e}
    /\ unsubs' = unsubs + 1
    /\ UNCHANGED << entry_state, hass_data, update_listener, platforms, data, last_exception, timer_in, waiters,
                    fetchVars, entities, sensor_data >>

\* mutant: the scheduled refresh and the subscribers outlive the unload
UnloadEntryKeepsCoordinator ==
    /\ read_result' = NoRead
    /\ delivered' = NoDelivery
    /\ notified' = NoCallbacks
    /\ client_out' = NoCall
    /\ entry_state = "loaded"
    /\ \E unload_ok \in BOOLEAN :
          /\ unload_ret' = Ok(unload_ok)
          /\ IF unload_ok
             THEN /\ hass_data' = Pop(hass_data, ENTRY_ID)
                  /\ entry_state' = "unloaded"
                  /\ platforms' = [p \in PLATFORMS |-> "unloaded"]
                  /\ update_listener' = FALSE
                  /\ UNCHANGED << timer_in, entityVars >>
             ELSE UNCHANGED << hass_data, entry_state, platforms, update_listener,
                               timer_in, entityVars >>
    /\ UNCHANGED << data, last_exception, unsubs, waiters, fetchVars >>

\* async_unload_entry.  unload_ok is what async_unload_platforms returns.  When
\* the platforms unload, their entities are removed, which detaches them from
\* the coordinator and cancels its scheduled refresh, the entry's on-unload
\* callbacks remove the update listener, and the coordinator is popped from
\* hass.data; a refresh in flight goes on.  When they do not, nothing changes.
UnloadEntry ==
    /\ read_result' = NoRead
    /\ delivered' = NoDelivery
    /\ notified' = NoCallbacks
    /\ client_out' = NoCall
    /\ entry_state = "loaded"
    /\ \E unload_ok \in BOOLEAN :
          /\ unload_ret' = Ok(unload_ok)
          /\ IF unload_ok
             THEN /\ hass_data' = Pop(hass_data, ENTRY_ID)
                  /\ entry_state' = "unloaded"
                  /\ platforms' = [p \in PLATFORMS |-> "unloaded"]
                  /\ entities' = {}
                  /\ listeners' = {}
                  /\ sensor_data' = [e \in SensorIds |-> None]
                  /\ timer_in' = NoTimer
                  /\ update_listener' = FALSE
             ELSE UNCHANGED << hass_data, entry_state, platforms, update_listener,
                               timer_in, entityVars >>
    /\ UNCHANGED << data, last_exception, unsubs, waiters, fetchVars >>

\* the properties of NOAAWeatherEntity modelled
WeatherProperties == {"humidity", "native_pressure"}

\* dict.get(key) followed by .get(ATTR_VALUE)
GetGet(d, key) ==
    IF key \notin DOMAIN d THEN Exc("AttributeError")
    ELSE IF ATTR_VALUE \in DOMAIN d[key] THEN Ok(d[key][ATTR_VALUE])
    ELSE Ok(None)

\* a property of NOAAWeatherEntity, read from coordinator.data
WeatherProperty(prop, d) ==
    CASE prop = "humidity" -> Subscript(Ok(d), "RelativeHumidity")
      [] prop = "native_temperature" -> Subscript(Subscript(Ok(d), "Temperature"), ATTR_VALUE)
      [] OTHER -> GetGet(d, "Pressure")

\* NOAAWeatherSensor.native_value
NativeValue(e, sd) == ValueFn(e[1], sd)

\* mutant: reading a property asks the coordinator for a refresh
WeatherReadRefreshes ==
    /\ Quiet
    /\ WeatherId \in entities
    /\ \E prop \in WeatherProperties : read_result' = WeatherProperty(prop, data)
    /\ Refresh("request")
    /\ UNCHANGED << entry_state, hass_data, update_listener, platforms, data, last_exception,
                    timer_in, unsubs, entityVars >>

\* the host reads a property of the weather entity
WeatherRead ==
    /\ Quiet
    /\ WeatherId \in entities
    /\ \E prop \in WeatherProperties : read_result' = WeatherProperty(prop, data)
    /\ UNCHANGED << entry_state, hass_data, update_listener, platforms, data, last_exception, timer_in, unsubs, waiters,
                    fetchVars, entityVars >>

\* the host reads the state of a sensor
SensorRead ==
    /\ Quiet
    /\ \E e \in entities \cap SensorIds : read_result' = NativeValue(e, sensor_data[e])
    /\ UNCHANGED << entry_state, hass_data, update_listener, platforms, data, last_exception, timer_in, unsubs, waiters,
                    fetchVars, entityVars >>

Next ==
    \/ SetupEntry
    \/ CurrentReturns
    \/ ForecastReturns
    \/ ClientRaises
    \/ Timeout
    \/ TimerTick
    \/ RequestRefresh
    \/ Advance
    \/ SensorPlatformSetup
    \/ WeatherPlatformSetup
    \/ Unsubscribe
    \/ UnloadEntry
    \/ WeatherRead
    \/ SensorRead

Spec == Init /\ [][Next]_vars

\* ------------------------------------------------------------------ claims
\* a refresh ends in this step
Ends == InFlight /\ ~InFlight'
\* the client raised one of its four error classes in this step
ClientFailed == \E k \in ErrorKinds : client_out' = Exc(k)
\* the outcome handed to the callers of a refresh that ended
OutcomeOf(err) == IF err = NoError THEN OkOutcome ELSE err

\* C1: single-flight.  At most one _async_update_data and at most one client
\* call is outstanding at any instant; while a refresh is in flight no step
\* starts another, a timer tick that fires meanwhile joins it, and every
\* caller that joined receives the outcome of that one refresh.
C1_SingleFlight ==
    /\ [](fetches <= 1 /\ Cardinality(client_calls) <= 1)
    /\ [][InFlight => fetches' <= fetches]_vars
    /\ [][(InFlight /\ InFlight' /\ timer_in = 0 /\ timer_in' = NoTimer /\ ~TornDown')
            => ("timer" \in waiters' /\ waiters \subseteq waiters'
                /\ UNCHANGED << upd_pc, current, flight, client_calls >>)]_vars
    /\ [][Ends => (delivered'.to = waiters
                   /\ delivered'.outcome = OutcomeOf(last_exception'))]_vars

\* C1 witness: a timer tick and a requested refresh wait for one fetch
C1_Witness == fetches = 1 /\ waiters = {"timer", "request"} /\ Cardinality(client_calls) = 1

\* C2: stale read.  When the client raises one of its four error classes the
\* snapshot after the refresh is the snapshot before it, and the error is
\* held in last_exception.
C2_StaleRead ==
    [][ClientFailed => (/\ data' = data
                        /\ last_exception' # NoError
                        /\ last_exception'.type = "UpdateFailed"
                        /\ ~InFlight')]_vars

\* C2 witness: a refresh failed after a successful one; the snapshot is kept
C2_Witness ==
    /\ data # None
    /\ last_exception.type = "UpdateFailed"
    /\ delivered.outcome = last_exception
    /\ entry_state = "loaded"

\* C3: when the first refresh fails with one of the four error classes, the
\* error handed to async_setup_entry carries the class the client raised.
C3_FirstRefreshKind ==
    [][(entry_state = "first_refresh" /\ ClientFailed)
          => (/\ "setup" \in delivered'.to
              /\ KindOf(delivered'.outcome) = client_out'.exc
              /\ entry_state' = "setup_error")]_vars

\* C3 witness: the first refresh failed on an invalid API key
C3_Witness ==
    /\ entry_state = "setup_error"
    /\ "setup" \in delivered.to
    /\ client_out = Exc("InvalidApiKeyError")
    /\ KindOf(delivered.outcome) = "InvalidApiKeyError"

\* C4: after a successful refresh of a coordinator that is not torn down the
\* snapshot holds every field of the client's current conditions under its
\* name with its value, and the client's forecast under ATTR_FORECAST.
C4_SnapshotComplete ==
    [][(upd_pc = "forecast" /\ "ok" \in DOMAIN client_out' /\ ~TornDown)
          => (/\ \A k \in DOMAIN current : k \in DOMAIN data' /\ data'[k] = current[k]
              /\ ATTR_FORECAST \in DOMAIN data'
              /\ data'[ATTR_FORECAST] = client_out'.ok
              /\ last_exception' = NoError)]_vars

\* C4 witness: a refresh stored the other reading with the five-day forecast
C4_Witness ==
    /\ delivered.outcome = OkOutcome
    /\ client_out = Ok(FullForecast)
    /\ DOMAIN data = DOMAIN OtherCurrent \cup {ATTR_FORECAST}
    /\ data["Pressure"] = OtherCurrent["Pressure"]

\* a refresh ends in this step with a snapshot
EndsOk == Ends /\ delivered'.outcome = OkOutcome

\* C5: when a refresh ends with a snapshot, every entity subscribed at that
\* instant is called back exactly once and re-reads its data from the new
\* snapshot; an entity that has unsubscribed is not called back and keeps the
\* data it had.
C5_OneNotification ==
    [][EndsOk => \A e \in EntityIds :
          /\ notified'[e] = IF e \in listeners THEN 1 ELSE 0
          /\ (e \in SensorIds \ listeners) => sensor_data'[e] = sensor_data[e]
          /\ (e \in SensorIds \cap listeners
                /\ ~IsExc(GetSensorData(data', e[1], e[2])))
             => sensor_data'[e] = GetSensorData(data', e[1], e[2]).ok]_vars

\* C5 witness: a refresh ended with a snapshot; a subscribed sensor was called
\* back once with new data, a sensor that had unsubscribed was not
C5_Witness ==
    /\ delivered.outcome = OkOutcome
    /\ \E e \in entities \cap listeners \cap SensorIds :
          /\ notified[e] = 1
          /\ ~IsExc(GetSensorData(data, e[1], e[2]))
          /\ sensor_data[e] = GetSensorData(data, e[1], e[2]).ok
    /\ \E e \in (entities \cap SensorIds) \ listeners :
          /\ notified[e] = 0
          /\ ~IsExc(GetSensorData(data, e[1], e[2]))
          /\ sensor_data[e] # GetSensorData(data, e[1], e[2]).ok

\* C6 (as claimed): a refresh whose client call exceeds the timeout ends with
\* an error of the connection-failure class.
C6_TimeoutIsConnectionFailure ==
    [][client_out' = Exc("TimeoutError")
          => IsInstance(KindOf(last_exception'), "ClientConnectorError")]_vars

C8_FailureNonFatal ==
    /\ [][(Ends /\ entry_state # "first_refresh" /\ ~TornDown /\ "timer" \in waiters)
            => (/\ entry_state' = entry_state
                /\ timer_in' = UPDATE_INTERVAL - flight
                /\ ClientFailed =>
                     (data' = data /\ KindOf(last_exception') = client_out'.exc)
                /\ "ok" \in DOMAIN client_out' =>
                     (/\ DOMAIN data' = DOMAIN current \cup {ATTR_FORECAST}
                      /\ \A k \in DOMAIN current : data'[k] = current[k]
                      /\ data'[ATTR_FORECAST] = client_out'.ok
                      /\ last_exception' = NoError))]_vars
    /\ [](timer_in = 0 => ENABLED TimerTick)

\* C8 witness: a scheduled refresh failed because the requests were exceeded;
\* the snapshot is kept and the next refresh is scheduled
C8_Witness ==
    /\ "timer" \in delivered.to
    /\ client_out = Exc("RequestsExceededError")
    /\ KindOf(last_exception) = "RequestsExceededError"
    /\ data # None
    /\ timer_in = UPDATE_INTERVAL
    /\ entry_state = "loaded"

\* the first refresh ends with the client's fixture data
FirstRefreshOfFixture ==
    /\ entry_state = "first_refresh"
    /\ upd_pc = "forecast"
    /\ current = FixtureCurrent
    /\ client_out' = Ok(FixtureForecast)

\* C9 (as claimed): after the first refresh with the fixture data the
\* snapshot's Temperature is 25.5, its RelativeHumidity is 62 and its forecast
\* holds the two entries in the client's order.
C9_FixtureTemperatureIsNumber ==
    [][FirstRefreshOfFixture
          => (/\ data'["Temperature"] = PyFloat(255)
              /\ data'["RelativeHumidity"] = PyInt(62)
              /\ data'[ATTR_FORECAST] = << FixtureDay0, FixtureDay1 >>)]_vars

\* C9 (amended): after the first refresh with the fixture data the snapshot's
\* Temperature is the client's mapping, whose Value is 25.5, its
\* RelativeHumidity is 62 and its forecast holds the two entries in the
\* client's order.
C9_FixtureSnapshot ==
    [][FirstRefreshOfFixture
          => (/\ DOMAIN data'["Temperature"] = {"Unit", "UnitType", "Value"}
              /\ data'["Temperature"][ATTR_VALUE] = PyFloat(255)
              /\ data'["RelativeHumidity"] = PyInt(62)
              /\ Len(data'[ATTR_FORECAST]) = 2
              /\ data'[ATTR_FORECAST][1]["EpochDate"] = PyInt(1697817600)
              /\ data'[ATTR_FORECAST][2]["EpochDate"] = PyInt(1729472302)
              /\ data'[ATTR_FORECAST] = << FixtureDay0, FixtureDay1 >>)]_vars

\* C9 witness: the first refresh has stored the fixture data
C9_Witness ==
    /\ delivered.to = {"setup"}
    /\ delivered.outcome = OkOutcome
    /\ client_out = Ok(FixtureForecast)
    /\ data["Temperature"][ATTR_VALUE] = PyFloat(255)
    /\ Len(data[ATTR_FORECAST]) = 2

\* the values a reader can be given in the current state
Readable ==
    {Ok(data["RelativeHumidity"])}
    \cup {IF "Pressure" \in DOMAIN data
          THEN Ok(data["Pressure"][ATTR_VALUE]) ELSE Exc("AttributeError")}
    \cup {IF e[2] # NoDay THEN Ok(sensor_data[e])
          ELSE IF sensor_data[e] = None THEN Exc("TypeError")
          ELSE Ok(sensor_data[e][ATTR_VALUE]) : e \in entities \cap SensorIds}

\* C10: reading a property is a pure read.  It starts no fetch, changes
\* neither the snapshot nor last_exception, the schedule, the subscribers or
\* the refresh in flight, and returns a value of the snapshot held at that
\* instant; it can be done whenever the entity exists, a refresh in flight or
\* not; and the snapshot changes only in the step in which a refresh ends
\* with the snapshot that _async_update_data returned.
C10_ReadIsPure ==
    /\ [][read_result' # NoRead
            => (/\ UNCHANGED << data, last_exception, timer_in, listeners,
                                entities, sensor_data, upd_pc, current, flight,
                                client_calls, fetches, waiters, entry_state,
                                hass_data, update_listener, platforms >>
                /\ read_result' \in Readable)]_vars
    /\ [][data' # data => (EndsOk /\ upd_pc = "forecast"
                           /\ "ok" \in DOMAIN client_out')]_vars
    /\ [](WeatherId \in entities => ENABLED WeatherRead)

\* C10 witness: a property was read while a refresh was in flight
C10_Witness ==
    /\ InFlight
    /\ data # None
    /\ read_result = Ok(data["RelativeHumidity"])

\* C11: after the entry has been unloaded the coordinator has no scheduled
\* refresh and no subscriber; from then on no refresh is started, no
\* subscriber is called back and the snapshot is not replaced, although a
\* refresh in flight at the unload goes on and ends.
C11_TeardownStops ==
    /\ [](TornDown => (timer_in = NoTimer /\ listeners = {}))
    /\ [][(TornDown \/ TornDown') => (/\ notified' = NoCallbacks
                                      /\ data' = data
                                      /\ timer_in' = NoTimer
                                      /\ fetches' <= fetches)]_vars

\* C11 witness: a refresh in flight at the unload has ended with a snapshot
\* that was not stored
C11_Witness ==
    /\ TornDown
    /\ upd_pc = "idle"
    /\ delivered.outcome = OkOutcome
    /\ "ok" \in DOMAIN client_out
    /\ data[ATTR_FORECAST] # client_out.ok

\* a refresh ends in this step with an error: a client call raised or the
\* timeout expired
RefreshFailed == Ends /\ IsExc(client_out') /\ client_out' # NoCall

\* C12: no failure of a refresh is dropped.  The error is held in
\* last_exception and handed to every caller waiting for the refresh; when
\* the refresh is the first one the caller is async_setup_entry, which the
\* error leaves; otherwise every entity subscribed at that instant is called
\* back once, as it is after a refresh that succeeded.
C12_NoFailureDropped ==
    [][RefreshFailed =>
          (/\ last_exception' # NoError
           /\ client_out'.exc \in ErrorKinds => last_exception' = UpdateFailed(client_out'.exc)
           /\ delivered'.to = waiters
           /\ delivered'.outcome = last_exception'
           /\ entry_state = "first_refresh" =>
                 ("setup" \in delivered'.to /\ entry_state' = "setup_error")
           /\ entry_state # "first_refresh" =>
                 \A e \in EntityIds : notified'[e] = IF e \in listeners THEN 1 ELSE 0)]_vars

\* C12 witness: a refresh after setup failed; the subscribed entities were
\* called back and the error is held in last_exception
C12_Witness ==
    /\ entry_state = "loaded"
    /\ client_out = Exc("ClientConnectorError")
    /\ last_exception = UpdateFailed("ClientConnectorError")
    /\ delivered.outcome = last_exception
    /\ listeners # {}
    /\ \A e \in listeners : notified[e] = 1

\* C13 (as claimed): once the callbacks of a refresh that ended have been
\* made, the data held by every subscribed sensor is the projection of the
\* coordinator's snapshot for the sensor's key and forecast day.
C13_EntitiesShareSnapshot ==
    [][Ends => \A e \in entities' \cap listeners' \cap SensorIds :
          /\ ~IsExc(GetSensorData(data', e[1], e[2]))
          /\ sensor_data'[e] = GetSensorData(data', e[1], e[2]).ok]_vars

\* C14: the snapshot is committed whole or not at all.  While the forecast is
\* awaited the snapshot is the one held before the refresh; when the forecast
\* query fails or times out after the current conditions were fetched, the
\* snapshot is not changed; when it returns, the snapshot's fields are exactly
\* the fields of the current conditions fetched by this refresh plus the
\* forecast, with their values, and nothing of the snapshot before.
C14_AtomicCommit ==
    /\ [][(upd_pc = "current" /\ upd_pc' = "forecast") => data' = data]_vars
    /\ [][(upd_pc = "forecast" /\ RefreshFailed) => data' = data]_vars
    /\ [][(upd_pc = "forecast" /\ "ok" \in DOMAIN client_out' /\ ~TornDown)
            => (/\ DOMAIN data' = DOMAIN current \cup {ATTR_FORECAST}
                /\ \A k \in DOMAIN current : data'[k] = current[k]
                /\ data'[ATTR_FORECAST] = client_out'.ok)]_vars

\* C14 witness: the snapshot before held the fixture reading, as the sensor
\* that unsubscribed still shows, and the snapshot stored by the refresh that
\* has ended has none of the fields that only the fixture has
C14_Witness ==
    /\ upd_pc = "idle"
    /\ delivered.outcome = OkOutcome
    /\ << "DewPoint", NoDay >> \in entities \ listeners
    /\ sensor_data[<< "DewPoint", NoDay >>] = FixtureCurrent["DewPoint"]
    /\ DOMAIN data = DOMAIN OtherCurrent \cup {ATTR_FORECAST}
    /\ "Visibility" \notin DOMAIN data

\* the coordinator is set up and runs: not torn down, its setup not failed
Live == entry_state \in {"first_refresh", "forwarding", "loaded"}

Registered == ENTRY_ID \in DOMAIN hass_data

\* C16: setup ordering.  The coordinator is stored in hass.data and the
\* update listener registered in the step in which the first refresh ends
\* with a snapshot, and not before; a platform is set up and an entity exists
\* only with the coordinator stored and a snapshot held; when the first
\* refresh fails the error leaves async_setup_entry, and hass.data, the update
\* listener, the platforms and the entities are as they were: nothing stored,
\* nothing registered, no entity.
C16_SetupOrdering ==
    /\ [][(~Registered /\ Registered')
            => (/\ entry_state = "first_refresh"
                /\ EndsOk
                /\ "setup" \in waiters
                /\ data' # None)]_vars
    /\ [][(~update_listener /\ update_listener')
            => (entry_state = "first_refresh" /\ EndsOk)]_vars
    /\ [](entry_state \in {"not_loaded", "first_refresh", "setup_error"}
            => (/\ ~Registered
                /\ ~update_listener
                /\ entities = {}
                /\ \A p \in PLATFORMS : platforms[p] = "pending"))
    /\ []((entities # {} \/ \E p \in PLATFORMS : platforms[p] \in {"done", "error"})
            => (Registered /\ data # None))
    /\ [][(entry_state = "first_refresh" /\ RefreshFailed)
            => (/\ "setup" \in delivered'.to
                /\ delivered'.outcome = last_exception'
                /\ entry_state' = "setup_error"
                /\ UNCHANGED << hass_data, update_listener, platforms, entities, listeners >>)]_vars

\* C16 witness: the first refresh has ended with a snapshot: the coordinator
\* is stored, the update listener registered, no platform set up yet
C16_Witness ==
    /\ entry_state = "forwarding"
    /\ delivered = [to |-> {"setup"}, outcome |-> OkOutcome]
    /\ Registered
    /\ update_listener
    /\ entities = {}
    /\ \A p \in PLATFORMS : platforms[p] = "pending"

\* C17: async_unload_entry returns what unloading the platforms returned.
\* When that is True the coordinator of the entry is gone from hass.data;
\* when it is False hass.data is as it was and still holds the coordinator;
\* either way every other entry of hass.data keeps its coordinator, and the
\* coordinator of the entry leaves hass.data in no other step.
C17_UnloadRegistry ==
    /\ [][unload_ret' # NoUnload
            => (/\ Registered
                /\ unload_ret' \in {Ok(TRUE), Ok(FALSE)}
                /\ Registered' <=> (unload_ret' = Ok(FALSE))
                /\ unload_ret' = Ok(FALSE) => hass_data' = hass_data
                /\ DOMAIN hass_data' \subseteq DOMAIN hass_data
                /\ \A i \in DOMAIN hass_data \ {ENTRY_ID} :
                      i \in DOMAIN hass_data' /\ hass_data'[i] = hass_data[i])]_vars
    /\ [][(Registered /\ ~Registered') => unload_ret' = Ok(TRUE)]_vars
    /\ [](OTHER_ENTRY_ID \in DOMAIN hass_data)

\* C17 witness: the platforms unloaded; the coordinator of the entry is gone
\* from hass.data and the other entry's is there
C17_Witness ==
    /\ unload_ret = Ok(TRUE)
    /\ ~Registered
    /\ entry_state = "unloaded"
    /\ DOMAIN hass_data = {OTHER_ENTRY_ID}

\* C18 (as claimed): every forecast sensor that sensor.async_setup_entry
\* constructs reads an entry of the forecast that exists, and so does every
\* subscribed forecast sensor when it is called back after a refresh: no
\* sensor's day is past the end of the snapshot's forecast.
C18_ForecastIndexSafe ==
    /\ [][(platforms["sensor"] = "pending" /\ platforms'["sensor"] \in {"done", "error"})
            => \A e \in SensorsToCreate(data) \cap ForecastSensorIds :
                  e[2] + 1 <= Len(data[ATTR_FORECAST])]_vars
    /\ [][Ends => \A e \in listeners' \cap ForecastSensorIds :
                  e[2] + 1 <= Len(data'[ATTR_FORECAST])]_vars

====
